---- MODULE Spec2Model ----
(***************************************************************************)
(* Model of the webscraper repository.                                     *)
(*                                                                         *)
(* Spec      : the BFS crawl loop of src/src/crawler/crawler.py            *)
(*             (Crawler._crawl_loop and Crawler.process_page) run against  *)
(*             an environment that plays the Fetcher, the Parser and the   *)
(*             Storage.                                                    *)
(* CanonSpec : the pure URL function Crawler.canonical applied to a        *)
(*             bounded family of URL strings.                              *)
(* StoreSpec : PostgresStorage (upsert_page, pages_for_embedding,          *)
(*             save_vectors) called in any order on an empty database.     *)
(* LinkSpec  : the two link filters of Crawler applied to one link of a    *)
(*             page.                                                       *)
(* ParseSpec : FirecrawlParser.parse applied to one fetch result.          *)
(* RestSpec  : RestApiStorage as the storage of a crawl, with              *)
(*             PostgresStorage handed the same pages beside it.            *)
(* FetchSpec : concurrent calls of FirecrawlFetcher.fetch on one fetcher,  *)
(*             on the clock of the event loop.                             *)
(* SumSpec   : content_and_hash and compute_head_checksum of               *)
(*             src/src/core/checksum.py applied to two HTML documents.     *)
(* ApiSpec   : one job of the API server of src/api/main.py, from its      *)
(*             POST request to its last status, with the crawl loop of     *)
(*             Spec run inside a crawl job.                                *)
(* SemSpec   : the calls of fetch of one batch at the semaphore of the     *)
(*             fetcher; SemFairSpec adds that the event loop runs every    *)
(*             coroutine that can run.                                     *)
(***************************************************************************)
EXTENDS Integers, Sequences, FiniteSets, TLC

(***************************************************************************)
(* Bounds of the model.                                                    *)
(***************************************************************************)
NumUrls == 3          \* canonical same-domain URLs of the site
MaxLinks == 3         \* links on all pages of the site together
MaxDepthBound == 2    \* CRAWLER_CONFIG["max_depth"] ranges over 0..MaxDepthBound
MaxPagesBound == 3    \* CRAWLER_CONFIG["max_pages"] ranges over 1..MaxPagesBound
MaxClock == 3         \* statements that write to the database
MaxUpserts == 11      \* pages a crawl hands to RestApiStorage.upsert_page
MaxTime == 17         \* the event loop clock stops here (units of rate_limit)
MaxBatch == 10        \* calls of fetch the orchestrator gathers in one batch

Urls == 1..NumUrls
start_url == 1

VARIABLES
    max_depth,      \* CRAWLER_CONFIG["max_depth"]
    max_pages,      \* CRAWLER_CONFIG["max_pages"]
    frontier,       \* Crawler.frontier
    depth_map,      \* Crawler.depth_map
    processed,      \* Crawler.processed
    current_depth,  \* local of _crawl_loop
    batch,          \* local of _crawl_loop
    fetch_results,  \* local of _crawl_loop, one entry per URL of the batch
    todo,           \* URLs of the batch the for loop has not reached yet
    pc,             \* position of _crawl_loop
    exc,            \* exception that left _crawl_loop, if any
    web,            \* links of every page the site has served so far
    dispatch_log,   \* history: the batches handed to fetcher.fetch
    parse_count,    \* history: calls of Parser.parse per URL
    upsert_count,   \* history: calls of Storage.upsert_page per URL
    extract_count,  \* history: link extractions per URL
    in_a,           \* the parts of a raw URL handed to Crawler.canonical
    in_b,           \* the parts of a second raw URL
    out_a,          \* Crawler.canonical of the first URL
    out_b,          \* Crawler.canonical of the second URL
    out_aa,         \* Crawler.canonical applied to out_a
    cpc,            \* how far the canonicalisation has got
    pages,          \* table pages, one row per url
    chunks,         \* table chunks: the vectors of a page by chunk_index
    clock,          \* the time NOW() last returned
    call,           \* the last call of a PostgresStorage method
    ret,            \* what that call returned or that it raised
    prev_head,      \* history: seo_head of the last upsert of a url
    link_page,      \* the canonical URL of the page a link is found on
    link_in,        \* the link as the page or Firecrawl gives it
    link_source,    \* the filter applied: "firecrawl" or "html"
    link_work,      \* the link as the filter has rewritten it so far
    link_abs,       \* history: the absolute URL the link stands for
    link_out,       \* what the filter hands to the frontier loop
    lpc,            \* how far the filtering has got
    parse_in,       \* the arguments of FirecrawlParser.parse
    parse_out,      \* what it returned or raised
    ppc,            \* how far the parsing has got
    batch_buffer,   \* RestApiStorage._batch_buffer
    rest_ret,       \* what RestApiStorage.upsert_page returned last
    rest_posted,    \* history: the pages the pages/batch endpoint accepted
    rest_calls,     \* history: calls of RestApiStorage.upsert_page
    rest_pc,        \* where the crawl that uses the storage stands
    loop_time,      \* asyncio.get_event_loop().time(), in units of rate_limit
    last_request_time, \* FirecrawlFetcher._last_request_time
    fpc,            \* where each call of fetch stands
    attempt,        \* local of _scrape_url, per call
    wake_at,        \* when the asyncio.sleep a call is in ends
    scrape_log,     \* history: posts, responses and sleeps of each call
    last_post_at,   \* history: when the latest POST was sent
    fetch_result,   \* what each call of fetch returned
    sem_new,        \* calls of the batch that have not reached the semaphore
    sem_value,      \* FirecrawlFetcher._request_semaphore._value
    sem_waiters,    \* calls waiting in _request_semaphore.acquire()
    sem_scraping,   \* calls inside the semaphore, by their attempt
    sem_ok,         \* calls that left _scrape_url by its return
    sem_failed,     \* calls that left _scrape_url by an exception
    doc_a,          \* an HTML document, as its parser sees it
    doc_b,          \* a second document that differs from it in one respect
    sum_a,          \* the clean text and the two checksums of doc_a
    sum_b,          \* the clean text and the two checksums of doc_b
    kpc,            \* how far the checksums have got
    job,            \* jobs[job_id], the JobStatus of the job
    job_kind,       \* which endpoint made the job: "crawl" or "embed"
    request,        \* the CrawlRequest of a crawl job
    api_pc,         \* where the background task of the job stands
    status_log,     \* history: every value given to jobs[job_id].status
    embedder_runs   \* history: times the job entered with Embedder()

crawl_vars == << max_depth, max_pages, frontier, depth_map, processed,
                 current_depth, batch, fetch_results, todo, pc, exc, web,
                 dispatch_log, parse_count, upsert_count, extract_count >>

canon_vars == << in_a, in_b, out_a, out_b, out_aa, cpc >>

store_vars == << pages, chunks, clock, call, ret, prev_head >>

link_vars == << link_page, link_in, link_source, link_work, link_abs, link_out, lpc >>

parse_vars == << parse_in, parse_out, ppc >>

rest_vars == << batch_buffer, rest_ret, rest_posted, rest_calls, rest_pc >>

fetch_vars == << loop_time, last_request_time, fpc, attempt, wake_at,
                 scrape_log, last_post_at, fetch_result >>

sem_vars == << sem_new, sem_value, sem_waiters, sem_scraping, sem_ok, sem_failed >>

sum_vars == << doc_a, doc_b, sum_a, sum_b, kpc >>

api_vars == << job, job_kind, request, api_pc, status_log, embedder_runs >>

vars == << crawl_vars, canon_vars, store_vars, link_vars, parse_vars, rest_vars,
           fetch_vars, sem_vars, sum_vars, api_vars >>

beside_crawl == << canon_vars, store_vars, link_vars, parse_vars, rest_vars,
    fetch_vars, sem_vars, sum_vars,
    api_vars >>
beside_canon == << crawl_vars, store_vars, link_vars, parse_vars, rest_vars,
    fetch_vars, sem_vars, sum_vars,
    api_vars >>
beside_store == << crawl_vars, canon_vars, link_vars, parse_vars, rest_vars,
    fetch_vars, sem_vars, sum_vars,
    api_vars >>
beside_link == << crawl_vars, canon_vars, store_vars, parse_vars, rest_vars,
    fetch_vars, sem_vars, sum_vars,
    api_vars >>
beside_parse == << crawl_vars, canon_vars, store_vars, link_vars, rest_vars,
    fetch_vars, sem_vars, sum_vars,
    api_vars >>
beside_rest == << crawl_vars, canon_vars, link_vars, parse_vars,
    fetch_vars, sem_vars, sum_vars,
    api_vars >>
beside_fetch == << crawl_vars, canon_vars, store_vars, link_vars, parse_vars,
    rest_vars, sem_vars, sum_vars,
    api_vars >>
beside_sem == << crawl_vars, canon_vars, store_vars, link_vars, parse_vars,
    rest_vars, fetch_vars, sum_vars,
    api_vars >>
beside_sum == << crawl_vars, canon_vars, store_vars, link_vars, parse_vars,
    rest_vars, fetch_vars, sem_vars,
    api_vars >>
beside_api == << canon_vars, store_vars, link_vars, parse_vars,
    rest_vars, fetch_vars, sem_vars, sum_vars >>

(***************************************************************************)
(* Fetch results (src/src/core/interfaces/fetcher.py, FetchResult; the     *)
(* orchestrator also accepts None).  links stands for the canonical        *)
(* same-domain links process_page derives from the result, either from     *)
(* extra["links"] or from the anchors of content (crawler.py:263-286).     *)
(* The orchestrator reads the fields error, content and extra of a result  *)
(* and never its status_code.                                              *)
(***************************************************************************)
Unknown == [known |-> FALSE, links |-> {}]
Pending == [st |-> "pending", status_code |-> 0, error |-> FALSE, links |-> {}]
NoneResult == [st |-> "none", status_code |-> 0, error |-> FALSE, links |-> {}]
ErrorResult == [st |-> "result", status_code |-> 500, error |-> TRUE, links |-> {}]
PageResult(status, L) == [st |-> "result", status_code |-> status, error |-> FALSE, links |-> L]

NoExc == [kind |-> "none", url |-> 0]

\* a test that forgets the error field
FetchOkIgnoresError(r) == r.st # "none"

\* the condition of crawler.py:338 (repeated, negated, at crawler.py:238)
FetchOk(r) == r.st # "none" /\ ~r.error

\* a depth test that is off by one
MayExtractOffByOne(depth, md) == depth <= md

\* crawler.py:261
MayExtract(depth, md) == depth + 1 <= md

\* children recorded at the depth of their parent
ChildDepthOfParent(depth) == depth

\* crawler.py:293
ChildDepth(depth) == depth + 1

\* crawler.py:321
BatchAt(f, dm, d) == {u \in f : dm[u] = d}

\* crawler.py:316-318
LoopCondition == /\ frontier # {}
                 /\ current_depth <= max_depth
                 /\ Cardinality(processed) < max_pages

CrawlInit ==
    /\ max_depth \in 0..MaxDepthBound
    /\ max_pages \in 1..MaxPagesBound
    /\ frontier = {start_url}
    /\ depth_map = [u \in {start_url} |-> 0]
    /\ processed = {}
    /\ current_depth = 0
    /\ batch = {}
    /\ fetch_results = [u \in {} |-> Pending]
    /\ todo = {}
    /\ pc = "loop"
    /\ exc = NoExc
    /\ web = [u \in Urls |-> Unknown]
    /\ dispatch_log = << >>
    /\ parse_count = [u \in Urls |-> 0]
    /\ upsert_count = [u \in Urls |-> 0]
    /\ extract_count = [u \in Urls |-> 0]

\* crawler.py:316-331: the while test, the batch selection and the dispatch
LoopHead ==
    /\ pc = "loop"
    /\ IF ~LoopCondition
       THEN /\ pc' = "done"
            /\ UNCHANGED << frontier, current_depth, batch, fetch_results, dispatch_log >>
       ELSE LET b == BatchAt(frontier, depth_map, current_depth) IN
            IF b = {}
            THEN /\ current_depth' = current_depth + 1
                 /\ UNCHANGED << pc, frontier, batch, fetch_results, dispatch_log >>
            ELSE /\ frontier' = frontier \ b
                 /\ batch' = b
                 /\ fetch_results' = [u \in b |-> Pending]
                 /\ dispatch_log' = Append(dispatch_log, [depth |-> current_depth, urls |-> b])
                 /\ pc' = "gather"
                 /\ UNCHANGED current_depth
    /\ UNCHANGED << max_depth, max_pages, depth_map, processed, todo, exc, web,
                    parse_count, upsert_count, extract_count >>

\* the number of links on the pages served so far
LinksServed == Cardinality(UNION {{<< v, l >> : l \in web[v].links} : v \in Urls})

\* the links the site serves for u: fixed once the page has been served
Served(u) == IF web[u].known THEN {web[u].links}
             ELSE {L \in SUBSET Urls : Cardinality(L) + LinksServed <= MaxLinks}

\* crawler.py:334: one fetcher.fetch(u) of the gather resolves
FetchResolve(u) ==
    /\ pc = "gather"
    /\ u \in batch
    /\ fetch_results[u].st = "pending"
    /\ \/ /\ \E r \in {NoneResult, ErrorResult} :
                fetch_results' = [fetch_results EXCEPT ![u] = r]
          /\ UNCHANGED web
       \/ \E L \in Served(u), status \in {200, 404} :
             /\ fetch_results' = [fetch_results EXCEPT ![u] = PageResult(status, L)]
             /\ web' = [web EXCEPT ![u] = [known |-> TRUE, links |-> L]]
    /\ UNCHANGED << max_depth, max_pages, frontier, depth_map, processed,
                    current_depth, batch, todo, pc, exc, dispatch_log,
                    parse_count, upsert_count, extract_count >>

\* a wait that returns with the first fetch that resolves
FirstResolved(b, results) == \E u \in b : results[u].st # "pending"

\* crawler.py:334: asyncio.gather returns once every fetch has resolved
AllResolved(b, results) == \A u \in b : results[u].st # "pending"

\* crawler.py:334
GatherDone ==
    /\ pc = "gather"
    /\ AllResolved(batch, fetch_results)
    /\ pc' = "process"
    /\ todo' = batch
    /\ UNCHANGED << max_depth, max_pages, frontier, depth_map, processed,
                    current_depth, batch, fetch_results, exc, web, dispatch_log,
                    parse_count, upsert_count, extract_count >>

\* crawler.py:337-340, a result that fails the test of line 338
SkipFailed(u) ==
    /\ pc = "process"
    /\ u \in todo
    /\ ~FetchOk(fetch_results[u])
    /\ processed' = processed \cup {u}
    /\ todo' = todo \ {u}
    /\ UNCHANGED << max_depth, max_pages, frontier, depth_map, current_depth,
                    batch, fetch_results, pc, exc, web, dispatch_log,
                    parse_count, upsert_count, extract_count >>

\* a test that only looks at the frontier
NewLinksNotInFrontier(links, p, f) == {l \in links : l \notin f}

\* crawler.py:291
NewLinks(links, p, f) == {l \in links : l \notin p /\ l \notin f}

\* crawler.py:289-295
Offer(links, depth) ==
    LET added == NewLinks(links, processed, frontier) IN
    /\ frontier' = frontier \cup added
    /\ depth_map' = [x \in (DOMAIN depth_map) \cup added |->
                        IF x \in added THEN ChildDepth(depth) ELSE depth_map[x]]

\* crawler.py:337-340 with process_page (crawler.py:222-297) for a result
\* that passes the test of line 338.  Parser.parse may raise
\* (firecrawl_parser.py:43-44) and Storage.upsert_page may raise
\* (postgres_storage.py:194-196); neither is caught on the way out of
\* _crawl_loop.
ProcessPage(u) ==
    /\ pc = "process"
    /\ u \in todo
    /\ FetchOk(fetch_results[u])
    /\ parse_count' = [parse_count EXCEPT ![u] = @ + 1]
    /\ \E outcome \in {"ok", "parse_raises", "upsert_raises"} :
        CASE outcome = "parse_raises" ->
                /\ pc' = "raised"
                /\ exc' = [kind |-> "parse", url |-> u]
                /\ UNCHANGED << frontier, depth_map, processed, todo,
                                upsert_count, extract_count >>
          [] outcome = "upsert_raises" ->
                /\ upsert_count' = [upsert_count EXCEPT ![u] = @ + 1]
                /\ pc' = "raised"
                /\ exc' = [kind |-> "storage", url |-> u]
                /\ UNCHANGED << frontier, depth_map, processed, todo, extract_count >>
          [] outcome = "ok" ->
                /\ upsert_count' = [upsert_count EXCEPT ![u] = @ + 1]
                /\ IF MayExtract(current_depth, max_depth)
                   THEN /\ extract_count' = [extract_count EXCEPT ![u] = @ + 1]
                        /\ Offer(fetch_results[u].links, current_depth)
                   ELSE UNCHANGED << extract_count, frontier, depth_map >>
                /\ processed' = processed \cup {u}
                /\ todo' = todo \ {u}
                /\ UNCHANGED << pc, exc >>
    /\ UNCHANGED << max_depth, max_pages, current_depth, batch, fetch_results,
                    web, dispatch_log >>

\* crawler.py:343-352: after the for loop
BatchDone ==
    /\ pc = "process"
    /\ todo = {}
    /\ current_depth' = IF \E u \in frontier : depth_map[u] = current_depth
                        THEN current_depth ELSE current_depth + 1
    /\ pc' = "loop"
    /\ UNCHANGED << max_depth, max_pages, frontier, depth_map, processed,
                    batch, fetch_results, todo, exc, web, dispatch_log,
                    parse_count, upsert_count, extract_count >>

(***************************************************************************)
(* Crawler.canonical (crawler.py:74-104) on URL strings.  urlparse and     *)
(* geturl follow urllib.parse (urlsplit / urlunsplit) for URLs without     *)
(* ';' parameters, brackets, whitespace or control characters.             *)
(***************************************************************************)
UpperCase == "ABCDEFGHIJKLMNOPQRSTUVWXYZ"
LowerCase == "abcdefghijklmnopqrstuvwxyz"
SchemeExtra == "0123456789+-."

Char(s, i) == SubSeq(s, i, i)
CharsOf(s) == {Char(s, i) : i \in 1..Len(s)}
Drop(s, n) == SubSeq(s, n + 1, Len(s))
Take(s, n) == SubSeq(s, 1, n)

\* str.find over a set of characters, from index from; Len(s) + 1 when absent
Find(s, cs, from) ==
    LET I == {i \in from..Len(s) : Char(s, i) \in cs} IN
    IF I = {} THEN Len(s) + 1 ELSE CHOOSE i \in I : \A j \in I : i <= j

Letters == CharsOf(UpperCase) \cup CharsOf(LowerCase)
SchemeChars == Letters \cup CharsOf(SchemeExtra)
LowerTable == [c \in CharsOf(UpperCase) |->
                  Char(LowerCase, CHOOSE i \in 1..Len(UpperCase) : Char(UpperCase, i) = c)]

LowerChar(c) == IF c \in DOMAIN LowerTable THEN LowerTable[c] ELSE c

\* str.lower
RECURSIVE lower(_)
lower(s) == IF s = "" THEN "" ELSE LowerChar(Head(s)) \o lower(Tail(s))

\* str.rstrip("/")
RECURSIVE rstrip(_)
rstrip(s) == IF Len(s) > 0 /\ Char(s, Len(s)) = "/" THEN rstrip(Take(s, Len(s) - 1)) ELSE s

\* urllib.parse.uses_netloc
uses_netloc == {"", "ftp", "http", "gopher", "nntp", "telnet", "imap", "wais",
                "file", "mms", "https", "shttp", "snews", "prospero", "rtsp",
                "rtspu", "rsync", "svn", "svn+ssh", "sftp", "nfs", "git",
                "git+ssh", "ws", "wss"}

\* urllib.parse.urlparse
urlparse(url) ==
    LET colon == Find(url, {":"}, 1)
        hasScheme == /\ colon <= Len(url)
                     /\ colon > 1
                     /\ Char(url, 1) \in Letters
                     /\ \A j \in 1..(colon - 1) : Char(url, j) \in SchemeChars
        scheme == IF hasScheme THEN lower(Take(url, colon - 1)) ELSE ""
        r1 == IF hasScheme THEN Drop(url, colon) ELSE url
        hasNetloc == Len(r1) >= 2 /\ Take(r1, 2) = "//"
        delim == Find(r1, {"/", "?", "#"}, 3)
        netloc == IF hasNetloc THEN SubSeq(r1, 3, delim - 1) ELSE ""
        r2 == IF hasNetloc THEN Drop(r1, delim - 1) ELSE r1
        hash == Find(r2, {"#"}, 1)
        fragment == IF hash <= Len(r2) THEN Drop(r2, hash) ELSE ""
        r3 == IF hash <= Len(r2) THEN Take(r2, hash - 1) ELSE r2
        qm == Find(r3, {"?"}, 1)
        query == IF qm <= Len(r3) THEN Drop(r3, qm) ELSE ""
        path == IF qm <= Len(r3) THEN Take(r3, qm - 1) ELSE r3
    IN [scheme |-> scheme, netloc |-> netloc, path |-> path,
        query |-> query, fragment |-> fragment]

\* urllib.parse.ParseResult.geturl
geturl(u) ==
    LET p1 == IF u.netloc # "" \/ (u.scheme # "" /\ u.scheme \in uses_netloc
                                   /\ ~(Len(u.path) >= 2 /\ Take(u.path, 2) = "//"))
              THEN "//" \o u.netloc \o
                   (IF u.path # "" /\ Char(u.path, 1) # "/" THEN "/" \o u.path ELSE u.path)
              ELSE u.path
        p2 == IF u.scheme # "" THEN u.scheme \o ":" \o p1 ELSE p1
        p3 == IF u.query # "" THEN p2 \o "?" \o u.query ELSE p2
    IN IF u.fragment # "" THEN p3 \o "#" \o u.fragment ELSE p3

\* crawler.py:99-104
canonical(url) ==
    LET u == urlparse(url) IN
    rstrip(geturl([u EXCEPT !.netloc = lower(u.netloc), !.fragment = ""]))

(***************************************************************************)
(* The raw URLs canonical is applied to, given by their parts.             *)
(***************************************************************************)
Hosts == {"example.com", "Example.com", "www.example.com", "WWW.Example.com"}
Paths == {"", "/", "/a", "/a/"}
Queries == {[has |-> FALSE, params |-> << >>],
            [has |-> TRUE, params |-> << >>],
            [has |-> TRUE, params |-> << "a=1", "b=2" >>],
            [has |-> TRUE, params |-> << "b=2", "a=1" >>],
            [has |-> TRUE, params |-> << "/" >>]}
Fragments == {[has |-> FALSE, text |-> ""], [has |-> TRUE, text |-> ""],
              [has |-> TRUE, text |-> "f"], [has |-> TRUE, text |-> "/"]}
UrlParts == [host : Hosts, path : Paths, query : Queries, fragment : Fragments]

RECURSIVE Join(_)
Join(ps) == IF ps = << >> THEN ""
            ELSE IF Len(ps) = 1 THEN ps[1]
            ELSE ps[1] \o "&" \o Join(Tail(ps))

\* the URL string the parts spell
Render(p) ==
    "https://" \o p.host \o p.path
        \o (IF p.query.has THEN "?" \o Join(p.query.params) ELSE "")
        \o (IF p.fragment.has THEN "#" \o p.fragment.text ELSE "")

NoParts == [host |-> "example.com", path |-> "",
            query |-> [has |-> FALSE, params |-> << >>],
            fragment |-> [has |-> FALSE, text |-> ""]]

\* host without case and without one leading "www." label
BareHost(h) == LET l == lower(h) IN
               IF Len(l) >= 4 /\ Take(l, 4) = "www." THEN Drop(l, 4) ELSE l

BareHostOf == [h \in Hosts |-> BareHost(h)]

SameParams(q1, q2) ==
    /\ q1.has = q2.has
    /\ Len(q1.params) = Len(q2.params)
    /\ \A x \in {q1.params[i] : i \in DOMAIN q1.params} :
          Cardinality({i \in DOMAIN q1.params : q1.params[i] = x})
            = Cardinality({i \in DOMAIN q2.params : q2.params[i] = x})

\* the two URLs differ only in host case, a leading www., the fragment, or
\* the order of the query parameters
DifferOnlyInAliases(p, q) ==
    /\ BareHostOf[p.host] = BareHostOf[q.host]
    /\ p.path = q.path
    /\ SameParams(p.query, q.query)

\* the URLs of the family that differ from p only in those respects
Aliases(p) == [host : {h \in Hosts : BareHostOf[h] = BareHostOf[p.host]},
               path : {p.path},
               query : {q \in Queries : SameParams(p.query, q)},
               fragment : Fragments]

ExampleA == [host |-> "WWW.Example.com", path |-> "/a/",
             query |-> [has |-> TRUE, params |-> << "b=2", "a=1" >>],
             fragment |-> [has |-> FALSE, text |-> ""]]
ExampleB == [host |-> "example.com", path |-> "/a",
             query |-> [has |-> TRUE, params |-> << "a=1", "b=2" >>],
             fragment |-> [has |-> FALSE, text |-> ""]]

(***************************************************************************)
(* PostgresStorage (src/src/core/implementations/postgres_storage.py) over *)
(* the tables of src/src/scripts/init_db.py.  The connection is in         *)
(* autocommit mode (postgres_storage.py:89), so every statement is a       *)
(* transaction of its own and NOW() is the time of that statement.         *)
(***************************************************************************)
\* the url column of the pages the model stores
PageUrls == {"https://example.com", "https://example.com/a"}
Titles == {"Home", "Start"}
Texts == {"Welcome", "Welcome back"}
JsonHeads == {"{\"robots\": \"all\"}", "{\"robots\": \"none\"}"}
Heads == JsonHeads \cup {"<head>"}

\* what a parser hands over for a page: raw_html is the page the other
\* three fields were cut from
RawHtml(title, clean_text, seo_head) == << title, seo_head, clean_text >>
PageAssets == [url : PageUrls, title : Titles, clean_text : Texts, seo_head : Heads]

\* chunk vectors as the embedder hands them over (one dimension)
VecLists == {<< << 2 >> >>, << << 2 >>, << 4 >> >>}

NullTime == 0        \* SQL NULL in a timestamptz column
NullVec == << >>     \* SQL NULL in a vector column

NoRow == [present |-> FALSE, title |-> "", clean_text |-> "", raw_html |-> << >>,
          markdown_checksum |-> << >>, markdown_changed |-> NullTime,
          metadata |-> "", last_seen |-> NullTime,
          summary_vec |-> NullVec, embedded_at |-> NullTime]

NoCall == [op |-> "none", url |-> "", clean_text |-> "", seo_head |-> ""]
NoReturn == [raised |-> FALSE, value |-> << >>]

\* postgres_storage.py:92-94: SHA-256 never collides on the texts of the model
compute_markdown_checksum(markdown_content) == << "sha256", markdown_content >>

\* postgres_storage.py:96-103
extract_metadata(seo_head) == IF seo_head \in JsonHeads THEN seo_head ELSE "{}"

\* a test that takes every visit for a change
ChecksumChangedAlways(old_checksum, markdown_cs) == TRUE

\* postgres_storage.py:170
ChecksumChanged(old_checksum, markdown_cs) == old_checksum # markdown_cs

\* postgres_storage.py:153-164
InsertedRow(assets, now) ==
    [present |-> TRUE, title |-> assets.title, clean_text |-> assets.clean_text,
     raw_html |-> RawHtml(assets.title, assets.clean_text, assets.seo_head),
     markdown_checksum |-> compute_markdown_checksum(assets.clean_text),
     markdown_changed |-> now,
     metadata |-> extract_metadata(assets.seo_head), last_seen |-> now,
     summary_vec |-> NullVec, embedded_at |-> NullTime]

\* an update that also sends the page back to the embedder
UpdatedRowResetsEmbedding(row, assets, now) ==
    [row EXCEPT !.title = assets.title, !.clean_text = assets.clean_text,
                !.raw_html = RawHtml(assets.title, assets.clean_text, assets.seo_head),
                !.markdown_checksum = compute_markdown_checksum(assets.clean_text),
                !.markdown_changed = now,
                !.metadata = extract_metadata(assets.seo_head),
                !.last_seen = now,
                !.summary_vec = NullVec, !.embedded_at = NullTime]

\* postgres_storage.py:171-183
UpdatedRow(row, assets, now) ==
    [row EXCEPT !.title = assets.title, !.clean_text = assets.clean_text,
                !.raw_html = RawHtml(assets.title, assets.clean_text, assets.seo_head),
                !.markdown_checksum = compute_markdown_checksum(assets.clean_text),
                !.markdown_changed = now,
                !.metadata = extract_metadata(assets.seo_head),
                !.last_seen = now]

\* postgres_storage.py:188-191
TouchedRow(row, now) == [row EXCEPT !.last_seen = now]

StoreIdle ==
    /\ pages = [u \in PageUrls |-> NoRow]
    /\ chunks = [u \in PageUrls |-> << >>]
    /\ clock = 0
    /\ call = NoCall
    /\ ret = NoReturn
    /\ prev_head = [u \in PageUrls |-> ""]

\* postgres_storage.py:105-196.  The except clause re-raises whatever a
\* statement raised; a statement that raises leaves the tables as they were.
upsert_page(assets) ==
    LET url == assets.url
        now == clock + 1
        markdown_cs == compute_markdown_checksum(assets.clean_text)
    IN
    /\ clock < MaxClock
    /\ clock' = now
    /\ call' = [op |-> "upsert_page", url |-> url,
                clean_text |-> assets.clean_text, seo_head |-> assets.seo_head]
    /\ \/ /\ ret' = [raised |-> TRUE, value |-> << >>]
          /\ UNCHANGED << pages, prev_head >>
       \/ /\ prev_head' = [prev_head EXCEPT ![url] = assets.seo_head]
          /\ IF ~pages[url].present
             THEN /\ pages' = [pages EXCEPT ![url] = InsertedRow(assets, now)]
                  /\ ret' = [raised |-> FALSE, value |-> << TRUE, FALSE >>]
             ELSE IF ChecksumChanged(pages[url].markdown_checksum, markdown_cs)
             THEN /\ pages' = [pages EXCEPT ![url] = UpdatedRow(@, assets, now)]
                  /\ ret' = [raised |-> FALSE, value |-> << TRUE, FALSE >>]
             ELSE /\ pages' = [pages EXCEPT ![url] = TouchedRow(@, now)]
                  /\ ret' = [raised |-> FALSE, value |-> << FALSE, FALSE >>]
    /\ UNCHANGED chunks

\* postgres_storage.py:215, the WHERE clause
NeedsEmbedding(row) == row.summary_vec = NullVec

\* postgres_storage.py:198-217
pages_for_embedding ==
    /\ call' = [op |-> "pages_for_embedding", url |-> "", clean_text |-> "", seo_head |-> ""]
    /\ ret' = [raised |-> FALSE,
               value |-> {<< u, pages[u].clean_text >> :
                             u \in {v \in PageUrls : pages[v].present /\ NeedsEmbedding(pages[v])}}]
    /\ UNCHANGED << pages, chunks, clock, prev_head >>

\* numpy.mean(vecs, axis=0) of one-dimensional vectors
RECURSIVE SumOf(_)
SumOf(vecs) == IF vecs = << >> THEN 0 ELSE Head(vecs)[1] + SumOf(Tail(vecs))
Mean(vecs) == << SumOf(vecs) \div Len(vecs) >>

\* postgres_storage.py:219-255.  The UPDATE touches the row of url if there
\* is one.  The INSERT into chunks raises when the page is missing (foreign
\* key) or when a chunk (url, 0) is already there (primary key); the UPDATE
\* before it is committed all the same.
save_vectors(url, vecs) ==
    LET now == clock + 1 IN
    /\ clock < MaxClock
    /\ clock' = now
    /\ call' = [op |-> "save_vectors", url |-> url, clean_text |-> "", seo_head |-> ""]
    /\ pages' = IF pages[url].present
                THEN [pages EXCEPT ![url].summary_vec = Mean(vecs),
                                   ![url].embedded_at = now]
                ELSE pages
    /\ IF pages[url].present /\ chunks[url] = << >>
       THEN /\ chunks' = [chunks EXCEPT ![url] = vecs]
            /\ ret' = NoReturn
       ELSE /\ chunks' = chunks
            /\ ret' = [raised |-> TRUE, value |-> << >>]
    /\ UNCHANGED prev_head

(***************************************************************************)
(* The link filters of Crawler: the Firecrawl path of process_page         *)
(* (crawler.py:263-282) and same_domain_links (crawler.py:156-220), on one *)
(* link of a page.  urldefrag and urljoin follow urllib.parse for links    *)
(* without ';' parameters and without '.' or '..' or empty path segments.  *)
(***************************************************************************)
\* str.startswith
startswith(s, prefix) == Len(s) >= Len(prefix) /\ Take(s, Len(prefix)) = prefix

\* str.lstrip(chars): drops leading characters as long as they are in chars
RECURSIVE lstrip(_, _)
lstrip(s, chars) == IF Len(s) > 0 /\ Char(s, 1) \in chars
                    THEN lstrip(Drop(s, 1), chars) ELSE s

\* crawler.py:124-126
strip_www(netloc) == lstrip(lower(netloc), CharsOf("www."))

\* crawler.py:106-133
is_same_domain(url1, url2) ==
    strip_www(urlparse(url1).netloc) = strip_www(urlparse(url2).netloc)

\* crawler.py:135-154
is_crawlable_url(url) == startswith(url, "http://") \/ startswith(url, "https://")

\* urllib.parse.uses_relative
uses_relative == {"", "ftp", "http", "gopher", "nntp", "imap", "wais", "file",
                  "https", "shttp", "mms", "prospero", "rtsp", "rtspu", "sftp",
                  "svn", "svn+ssh", "ws", "wss"}

\* urllib.parse.urldefrag(url)[0]
urldefrag(url) == IF "#" \in CharsOf(url)
                  THEN geturl([urlparse(url) EXCEPT !.fragment = ""])
                  ELSE url

\* the index of the last "/" of s, 0 when there is none
LastSlash(s) == LET I == {i \in 1..Len(s) : Char(s, i) = "/"} IN
                IF I = {} THEN 0 ELSE CHOOSE i \in I : \A j \in I : j <= i

\* urllib.parse.urljoin on the parsed base b and the parsed link p
urljoin_parsed(b, p, url) ==
    LET u == IF p.scheme = "" THEN [p EXCEPT !.scheme = b.scheme] ELSE p IN
    IF u.scheme # b.scheme \/ u.scheme \notin uses_relative THEN url
    ELSE IF u.scheme \in uses_netloc /\ u.netloc # "" THEN geturl(u)
    ELSE
    LET n == IF u.scheme \in uses_netloc THEN [u EXCEPT !.netloc = b.netloc] ELSE u IN
    IF n.path = ""
    THEN geturl([n EXCEPT !.path = b.path,
                          !.query = IF n.query = "" THEN b.query ELSE n.query])
    ELSE IF Char(n.path, 1) = "/"
    THEN geturl(n)
    ELSE geturl([n EXCEPT !.path = (IF LastSlash(b.path) = 0 THEN "/"
                                    ELSE Take(b.path, LastSlash(b.path))) \o n.path])

\* urllib.parse.urljoin
urljoin(base, url) ==
    IF base = "" THEN url
    ELSE IF url = "" THEN base
    ELSE CHOOSE joined \in {urljoin_parsed(b, p, url) :
                               b \in {urlparse(base)}, p \in {urlparse(url)}} : TRUE

Dropped == [kept |-> FALSE, url |-> ""]
Kept(url) == [kept |-> TRUE, url |-> url]

\* crawler.py:199
SkippedPrefixes == {"#", "javascript:", "mailto:", "tel:"}

\* the canonical URLs of the pages the links are found on
BasePages == {"https://example.com", "https://www.example.com",
              "https://example.com/dir/page"}

\* the links found on them
PageLinks == {"", "#top", "javascript:void(0)", "mailto:info@example.com",
              "tel:+1234567890", "ftp://example.com/file", "data:text/plain,hi",
              "https://example.com/about", "http://example.com/about",
              "https://example.com/about/#team", "HTTPS://example.com/about",
              "https://www.example.com/about", "https://WWW.Example.com/about",
              "https://wexample.com/about", "https://w.example.com/about",
              "https://other.com/about", "https://example.com.evil.org/",
              "/about", "about", "//example.com/about", "//www.example.com/about",
              "?page=2"}

LinkIdle ==
    /\ link_page = ""
    /\ link_in = ""
    /\ link_source = "none"
    /\ link_work = ""
    /\ link_abs = ""
    /\ link_out = Dropped
    /\ lpc = "idle"

\* crawler.py:267-272, a link of extra["links"]
FirecrawlCrawlable ==
    /\ lpc = "raw"
    /\ link_source' = "firecrawl"
    /\ IF ~is_crawlable_url(link_in)
       THEN /\ link_out' = Dropped
            /\ lpc' = "done"
            /\ UNCHANGED << link_work, link_abs >>
       ELSE /\ link_work' = link_in
            /\ link_abs' = link_in
            /\ lpc' = "link"
            /\ UNCHANGED link_out
    /\ UNCHANGED << link_page, link_in >>

\* crawler.py:274
FirecrawlCanonical ==
    /\ lpc = "link"
    /\ link_work' = canonical(link_work)
    /\ lpc' = "canonical_link"
    /\ UNCHANGED << link_page, link_in, link_source, link_abs, link_out >>

\* crawler.py:275-278
FirecrawlSameDomain ==
    /\ lpc = "canonical_link"
    /\ link_out' = IF is_same_domain(link_work, link_page) THEN Kept(link_work) ELSE Dropped
    /\ lpc' = "done"
    /\ UNCHANGED << link_page, link_in, link_source, link_work, link_abs >>

\* crawler.py:195-200, an anchor of the HTML
HtmlHref ==
    /\ lpc = "raw"
    /\ link_source' = "html"
    /\ LET href == urldefrag(link_in) IN
       IF href = "" \/ \E prefix \in SkippedPrefixes : startswith(href, prefix)
       THEN /\ link_out' = Dropped
            /\ lpc' = "done"
            /\ UNCHANGED link_work
       ELSE /\ link_work' = href
            /\ lpc' = "href"
            /\ UNCHANGED link_out
    /\ UNCHANGED << link_page, link_in, link_abs >>

\* crawler.py:204
HtmlAbsolute ==
    /\ lpc = "href"
    /\ link_work' = urljoin(link_page, link_work)
    /\ link_abs' = link_work'
    /\ lpc' = "abs_url"
    /\ UNCHANGED << link_page, link_in, link_source, link_out >>

\* crawler.py:206
HtmlCanonical ==
    /\ lpc = "abs_url"
    /\ link_work' = canonical(link_work)
    /\ lpc' = "canonical_url"
    /\ UNCHANGED << link_page, link_in, link_source, link_abs, link_out >>

\* crawler.py:186, 209-213
HtmlSameDomain ==
    /\ lpc = "canonical_url"
    /\ link_out' = IF urlparse(link_work).netloc = urlparse(link_page).netloc
                   THEN Kept(link_work) ELSE Dropped
    /\ lpc' = "done"
    /\ UNCHANGED << link_page, link_in, link_source, link_work, link_abs >>

(***************************************************************************)
(* FirecrawlParser.parse                                                   *)
(* (src/src/core/implementations/firecrawl_parser.py:42-140).  A dict is a *)
(* function on its keys, markdown is given by its lines, and html is given *)
(* by what trafilatura extracts from it: its title and its main text after *)
(* the clean-up of lines 87-103.                                           *)
(***************************************************************************)
Whitespace == {" "}

\* str.rstrip(), on blanks
RECURSIVE rstrip_blanks(_)
rstrip_blanks(s) == IF Len(s) > 0 /\ Char(s, Len(s)) \in Whitespace
                    THEN rstrip_blanks(Take(s, Len(s) - 1)) ELSE s

\* str.strip(), on blanks
strip(s) == rstrip_blanks(lstrip(s, Whitespace))

\* dict.get(key, default)
Get(dict, key, default) == IF key \in DOMAIN dict THEN dict[key] ELSE default

EmptyDict == [k \in {} |-> ""]
Restrict(dict, keys) == [k \in keys |-> dict[k]]

ExtraKeys == {"markdown", "links", "metadata"}
Markdowns == {<< >>, << "# Home ", "Welcome to the site" >>, << "Welcome to the site" >>}
LinkLists == {<< >>, << "https://example.com/about" >>}
Metadatas == {EmptyDict, [title |-> " Home page "], [title |-> ""]}
Htmls == {[title |-> "", text |-> ""],
          [title |-> "Home - Example", text |-> "Welcome to the site of Example, the home of examples."]}

NoneExtra == [none |-> TRUE, dict |-> EmptyDict]
Extras == {NoneExtra} \cup
          {[none |-> FALSE, dict |-> Restrict(d, keys)] :
              d \in [markdown : Markdowns, links : LinkLists, metadata : Metadatas],
              keys \in SUBSET ExtraKeys}

NoAssets == [url |-> "", raw_html |-> [title |-> "", text |-> ""], clean_text |-> "",
             seo_head |-> EmptyDict, title |-> ""]
Raised(exception) == [raised |-> exception, assets |-> NoAssets]
Returned(assets) == [raised |-> "none", assets |-> assets]

\* a test that only looks for a missing extra
LacksMarkdownOnlyNone(extra) == extra.none

\* firecrawl_parser.py:43
LacksMarkdown(extra) == extra.none \/ "markdown" \notin DOMAIN extra.dict

\* firecrawl_parser.py:58-62: the first line that starts with "# "
MarkdownTitle(markdown) ==
    LET I == {i \in 1..Len(markdown) : startswith(strip(markdown[i]), "# ")} IN
    IF I = {} THEN ""
    ELSE strip(Drop(strip(markdown[CHOOSE i \in I : \A j \in I : i <= j]), 2))

\* firecrawl_parser.py:51-76
TitleOf(url, html, markdown, metadata) ==
    LET t1 == IF metadata # EmptyDict /\ "title" \in DOMAIN metadata
              THEN strip(metadata["title"]) ELSE ""
        t2 == IF t1 = "" THEN MarkdownTitle(markdown) ELSE t1
        t3 == IF t2 = "" THEN strip(html.title) ELSE t2
    IN IF t3 = "" THEN url ELSE t3

\* firecrawl_parser.py:142-249 on markdown whose only markup is "# " headers
\* and whose lines have between 4 and 15 letters a word
RECURSIVE markdown_to_clean_text(_)
markdown_to_clean_text(markdown) ==
    IF markdown = << >> THEN ""
    ELSE LET line == strip(Head(markdown))
             text == strip(IF startswith(line, "# ") THEN Drop(line, 2) ELSE line)
             rest == markdown_to_clean_text(Tail(markdown))
         IN IF text = "" THEN rest
            ELSE IF rest = "" THEN text
            ELSE text \o "\n" \o rest

\* firecrawl_parser.py:42-140
parse(url, html, extra) ==
    IF LacksMarkdown(extra) THEN Raised("ValueError")
    ELSE IF "markdown" \notin DOMAIN extra.dict THEN Raised("KeyError")
    ELSE
    LET markdown == extra.dict["markdown"]
        links == Get(extra.dict, "links", << >>)
        metadata == Get(extra.dict, "metadata", EmptyDict)
        full_response == Get(extra.dict, "full_firecrawl_response", EmptyDict)
        title == TitleOf(url, html, markdown, metadata)
        text == IF html.text # "" THEN html.text ELSE markdown_to_clean_text(markdown)
        clean_text == IF text # ""
                      THEN "Page URL: " \o url \o "\nPage Title: " \o title \o "\n\n" \o text
                      ELSE text
        seo_head == [links |-> links, source |-> "firecrawl",
                     content_type |-> "markdown", firecrawl_metadata |-> metadata,
                     full_firecrawl_response |-> full_response,
                     markdown |-> markdown, category_info |-> EmptyDict]
    IN Returned([url |-> url, raw_html |-> html, clean_text |-> clean_text,
                 seo_head |-> seo_head, title |-> title])

ParseIdle ==
    /\ parse_in = [url |-> "", html |-> [title |-> "", text |-> ""], extra |-> NoneExtra]
    /\ parse_out = Raised("none")
    /\ ppc = "idle"

\* crawler.py:246  assets = self.parser.parse(url, fetch_result.content, fetch_result.extra)
Parse ==
    /\ ppc = "raw"
    /\ parse_out' = parse(parse_in.url, parse_in.html, parse_in.extra)
    /\ ppc' = "done"
    /\ UNCHANGED parse_in

(***************************************************************************)
(* RestApiStorage (src/src/core/implementations/rest_api_storage.py) as    *)
(* the storage of a crawl.  The pages/batch endpoint either accepts a      *)
(* posted batch (HTTP 200) or does not (any other status, or the request   *)
(* raises): _make_request returns None in the second case                  *)
(* (rest_api_storage.py:68-89).                                            *)
(***************************************************************************)
\* rest_api_storage.py:64  self._batch_size = 10
batch_size == 10

\* the pages the crawl of RestSpec comes across: one URL whose text is the
\* same or another one on each visit
RestAssets == [url : {"https://example.com"}, title : {"Home"},
               clean_text : Texts, seo_head : {"{\"robots\": \"all\"}"}]

\* rest_api_storage.py:144-174; current_time is the number of the call
page_data(assets, current_time) ==
    [url |-> assets.url, title |-> assets.title, clean_text |-> assets.clean_text,
     raw_html |-> RawHtml(assets.title, assets.clean_text, assets.seo_head),
     markdown_checksum |-> compute_markdown_checksum(assets.clean_text),
     markdown_changed |-> current_time, last_seen |-> current_time,
     metadata |-> extract_metadata(assets.seo_head), page_type |-> "other"]

\* rest_api_storage.py:100-113: raised tells whether _flush_batch raised
flush_batch(buffer, raised) ==
    IF buffer = << >>
    THEN /\ raised = FALSE
         /\ batch_buffer' = buffer
         /\ rest_posted' = rest_posted
    ELSE \/ /\ raised = FALSE
            /\ batch_buffer' = << >>
            /\ rest_posted' = rest_posted \o buffer
         \/ /\ raised = TRUE
            /\ batch_buffer' = buffer
            /\ rest_posted' = rest_posted

\* rest_api_storage.py:120-192, for assets whose fields are strings
rest_upsert_page(assets) ==
    LET buffered == Append(batch_buffer, page_data(assets, rest_calls + 1)) IN
    /\ rest_calls' = rest_calls + 1
    /\ IF Len(buffered) >= batch_size
       THEN \E raised \in BOOLEAN :
               /\ flush_batch(buffered, raised)
               /\ rest_ret' = IF raised THEN << FALSE, FALSE >> ELSE << TRUE, FALSE >>
       ELSE /\ batch_buffer' = buffered
            /\ rest_posted' = rest_posted
            /\ rest_ret' = << TRUE, FALSE >>

\* rest_api_storage.py:115-118, called with pages in the buffer
flush_all ==
    /\ batch_buffer # << >>
    /\ \E raised \in BOOLEAN : flush_batch(batch_buffer, raised)
    /\ UNCHANGED << rest_ret, rest_calls >>

RestIdle ==
    /\ batch_buffer = << >>
    /\ rest_ret = << >>
    /\ rest_posted = << >>
    /\ rest_calls = 0
    /\ rest_pc = "idle"

\* crawler.py:248  content_changed, seo_changed = self.store.upsert_page(assets)
\* with self.store a RestApiStorage; a PostgresStorage is handed the same
\* assets for as long as its clock runs
RestProcessPage(assets) ==
    /\ rest_pc = "crawling"
    /\ rest_calls < MaxUpserts
    /\ rest_upsert_page(assets)
    /\ IF clock < MaxClock THEN upsert_page(assets) ELSE UNCHANGED store_vars
    /\ UNCHANGED rest_pc

\* crawler.py:380-381: _crawl_loop has ended and Crawler.crawl returns; the
\* crawler makes no call of the storage on the way out
RestCrawlReturns ==
    /\ rest_pc = "crawling"
    /\ rest_pc' = "returned"
    /\ UNCHANGED << batch_buffer, rest_ret, rest_posted, rest_calls, store_vars >>

\* a caller of Crawler.crawl that flushes the storage afterwards
RestFlushAll ==
    /\ rest_pc = "returned"
    /\ flush_all
    /\ UNCHANGED << rest_pc, store_vars >>

(***************************************************************************)
(* FirecrawlFetcher (src/src/core/implementations/firecrawl_fetcher.py).   *)
(* Calls of fetch are coroutines of one event loop: a call runs alone from *)
(* one await to the next.  Time is counted in units of rate_limit (0.2 s). *)
(* An asyncio.sleep ends when its delay has passed; the answer to a POST   *)
(* arrives at any time.  The calls of FetchSpec are fewer than the permits *)
(* of the semaphore, which SemSpec models.                                 *)
(***************************************************************************)
FetchCalls == {"c1", "c2"}

\* firecrawl_fetcher.py:37  max_retries: int = 3
max_retries == 3
\* firecrawl_fetcher.py:37  rate_limit: float = 0.2, the unit of time
rate_limit == 1
\* one second, the unit of the backoff of firecrawl_fetcher.py:94
second == 5

\* how a POST to /scrape ends (firecrawl_fetcher.py:85-119)
ScrapeOutcomes == {"success", "api_failed", "http_error", "timeout", "exception"}

NoTime == 0 - 1
NoFetchResult == [returned |-> FALSE, status_code |-> 0, content |-> "",
                  error |-> "", extra |-> {}]

\* src/src/core/interfaces/fetcher.py:49-53, the fields of the dataclass
FetchResultFields == {"url", "content", "status_code", "content_type", "error"}

\* a retry loop that gives up after the first failure
MayRetryNever(n) == FALSE

\* firecrawl_fetcher.py:93, 100, 107, 114
MayRetry(n) == n < max_retries - 1

\* firecrawl_fetcher.py:94, 101, 108, 116  asyncio.sleep(2 ** attempt)
backoff(n) == (2 ^ n) * second

\* firecrawl_fetcher.py:142-148
FailedFetch(message) ==
    [returned |-> TRUE, status_code |-> 500, content |-> "",
     error |-> "Firecrawl scrape failed: " \o message, extra |-> {}]

\* firecrawl_fetcher.py:128-140: the dataclass rejects a keyword that is
\* not one of its fields with a TypeError, which the except clause of
\* fetch turns into a failed result
SucceededFetch ==
    IF {"url", "content", "status_code", "content_type", "extra"} \subseteq FetchResultFields
    THEN [returned |-> TRUE, status_code |-> 200, content |-> "<html>",
          error |-> "", extra |-> {"markdown", "links", "metadata"}]
    ELSE FailedFetch("unexpected keyword argument 'extra'")

\* firecrawl_fetcher.py:85  self._session.post(...)
Post(c, n) ==
    /\ fpc' = [fpc EXCEPT ![c] = "posting"]
    /\ attempt' = [attempt EXCEPT ![c] = n]
    /\ scrape_log' = [scrape_log EXCEPT ![c] = Append(@, << "post", n >>)]
    /\ last_post_at' = loop_time

FetchIdle ==
    /\ loop_time = 0
    /\ last_request_time = 0
    /\ fpc = [c \in FetchCalls |-> "idle"]
    /\ attempt = [c \in FetchCalls |-> 0]
    /\ wake_at = [c \in FetchCalls |-> NoTime]
    /\ scrape_log = [c \in FetchCalls |-> << >>]
    /\ last_post_at = NoTime
    /\ fetch_result = [c \in FetchCalls |-> NoFetchResult]

\* firecrawl_fetcher.py:123-126, 59-62, 51-56: fetch is called, takes a
\* permit and runs _rate_limit_request up to its sleep; without the sleep
\* it goes on to line 57 and to the first POST
FetchCall(c) ==
    LET time_since_last == loop_time - last_request_time IN
    /\ fpc[c] = "idle"
    /\ IF time_since_last < rate_limit
       THEN /\ fpc' = [fpc EXCEPT ![c] = "limited"]
            /\ wake_at' = [wake_at EXCEPT ![c] = loop_time + (rate_limit - time_since_last)]
            /\ UNCHANGED << last_request_time, attempt, scrape_log, last_post_at >>
       ELSE /\ last_request_time' = loop_time
            /\ Post(c, 0)
            /\ UNCHANGED wake_at
    /\ UNCHANGED << loop_time, fetch_result >>

\* firecrawl_fetcher.py:56-57, 81-85: the sleep of _rate_limit_request is
\* over
RateLimitWake(c) ==
    /\ fpc[c] = "limited"
    /\ wake_at[c] = loop_time
    /\ last_request_time' = loop_time
    /\ Post(c, 0)
    /\ UNCHANGED << loop_time, wake_at, fetch_result >>

\* firecrawl_fetcher.py:85-119 and, when _scrape_url is left, 126-148
Respond(c, outcome) ==
    /\ fpc[c] = "posting"
    /\ IF outcome = "success"
       THEN /\ scrape_log' = [scrape_log EXCEPT ![c] = Append(@, << "ok", attempt[c] >>)]
            /\ fpc' = [fpc EXCEPT ![c] = "returned"]
            /\ fetch_result' = [fetch_result EXCEPT ![c] = SucceededFetch]
            /\ UNCHANGED wake_at
       ELSE IF MayRetry(attempt[c])
       THEN /\ scrape_log' = [scrape_log EXCEPT ![c] =
                                 @ \o << << "failed", attempt[c] >>,
                                         << "sleep", backoff(attempt[c]) >> >>]
            /\ fpc' = [fpc EXCEPT ![c] = "backoff"]
            /\ wake_at' = [wake_at EXCEPT ![c] = loop_time + backoff(attempt[c])]
            /\ UNCHANGED fetch_result
       ELSE /\ scrape_log' = [scrape_log EXCEPT ![c] = Append(@, << "failed", attempt[c] >>)]
            /\ fpc' = [fpc EXCEPT ![c] = "returned"]
            /\ fetch_result' = [fetch_result EXCEPT ![c] = FailedFetch(outcome)]
            /\ UNCHANGED wake_at
    /\ UNCHANGED << loop_time, last_request_time, attempt, last_post_at >>

\* firecrawl_fetcher.py:94-95 (101-102, 108-109, 116-117), 81-85: the
\* backoff is over and the loop goes to its next attempt; when the range is
\* used up _scrape_url raises at line 121
BackoffWake(c) ==
    /\ fpc[c] = "backoff"
    /\ wake_at[c] = loop_time
    /\ IF attempt[c] + 1 < max_retries
       THEN /\ Post(c, attempt[c] + 1)
            /\ UNCHANGED fetch_result
       ELSE /\ fpc' = [fpc EXCEPT ![c] = "returned"]
            /\ fetch_result' = [fetch_result EXCEPT ![c] = FailedFetch("All attempts failed")]
            /\ UNCHANGED << attempt, scrape_log, last_post_at >>
    /\ UNCHANGED << loop_time, last_request_time, wake_at >>

\* time passes once every sleep that is over has been woken
TimePasses ==
    /\ loop_time < MaxTime
    /\ \A c \in FetchCalls : fpc[c] \in {"limited", "backoff"} => wake_at[c] > loop_time
    /\ loop_time' = loop_time + 1
    /\ UNCHANGED << last_request_time, fpc, attempt, wake_at, scrape_log,
                    last_post_at, fetch_result >>

(***************************************************************************)
(* The semaphore of FirecrawlFetcher.  The calls of fetch of a batch are   *)
(* alike, so the state counts the calls at each place of _scrape_url       *)
(* instead of naming them.  asyncio.Semaphore hands a released permit to   *)
(* the waiters before any newcomer.                                        *)
(***************************************************************************)
\* firecrawl_fetcher.py:45  asyncio.Semaphore(8)
permits == 8

Attempts == 0..(max_retries - 1)

\* a way out of the with block that keeps the permit
KeepsPermit(value) == value

\* firecrawl_fetcher.py:61: leaving the async with block, by return or by
\* exception, calls release()
Release(value) == value + 1

SemIdle ==
    /\ sem_new = 0
    /\ sem_value = permits
    /\ sem_waiters = 0
    /\ sem_scraping = [n \in Attempts |-> 0]
    /\ sem_ok = 0
    /\ sem_failed = 0

\* firecrawl_fetcher.py:61: a call reaches async with self._request_semaphore
SemEnter ==
    /\ sem_new > 0
    /\ sem_new' = sem_new - 1
    /\ IF sem_value > 0 /\ sem_waiters = 0
       THEN /\ sem_value' = sem_value - 1
            /\ sem_scraping' = [sem_scraping EXCEPT ![0] = @ + 1]
            /\ UNCHANGED sem_waiters
       ELSE /\ sem_waiters' = sem_waiters + 1
            /\ UNCHANGED << sem_value, sem_scraping >>
    /\ UNCHANGED << sem_ok, sem_failed >>

\* firecrawl_fetcher.py:61: a waiting call is woken and takes the permit
SemWake ==
    /\ sem_waiters > 0
    /\ sem_value > 0
    /\ sem_waiters' = sem_waiters - 1
    /\ sem_value' = sem_value - 1
    /\ sem_scraping' = [sem_scraping EXCEPT ![0] = @ + 1]
    /\ UNCHANGED << sem_new, sem_ok, sem_failed >>

\* firecrawl_fetcher.py:85-89: attempt n of a call is answered with success
AttemptSucceeds(n) ==
    /\ sem_scraping[n] > 0
    /\ sem_scraping' = [sem_scraping EXCEPT ![n] = @ - 1]
    /\ sem_value' = Release(sem_value)
    /\ sem_ok' = sem_ok + 1
    /\ UNCHANGED << sem_new, sem_waiters, sem_failed >>

\* firecrawl_fetcher.py:90-119: attempt n of a call fails; the call sleeps
\* and tries again inside the with block, or raises out of it
AttemptFails(n) ==
    /\ sem_scraping[n] > 0
    /\ IF MayRetry(n)
       THEN /\ sem_scraping' = [sem_scraping EXCEPT ![n] = @ - 1, ![n + 1] = @ + 1]
            /\ UNCHANGED << sem_value, sem_failed >>
       ELSE /\ sem_scraping' = [sem_scraping EXCEPT ![n] = @ - 1]
            /\ sem_value' = Release(sem_value)
            /\ sem_failed' = sem_failed + 1
    /\ UNCHANGED << sem_new, sem_waiters, sem_ok >>

(***************************************************************************)
(* The checksums of src/src/core/checksum.py.  A document is what          *)
(* BeautifulSoup and readability make of its HTML: the tags of the head    *)
(* that the code looks at and the blocks of the body, each with its text,  *)
(* the alt text of its image and whether readability's summary() leaves    *)
(* it out as boilerplate.  "" stands for a tag or attribute that is        *)
(* missing or empty, which the code treats alike.  Titles are shorter than *)
(* the 15 characters from which short_title() starts to cut them.          *)
(***************************************************************************)
NoTitle == [present |-> FALSE, string |-> ""]
TitleTags == {NoTitle} \cup
             [present : {TRUE}, string : {"", " ", "Home", "Home ", "Start"}]

NoLinks == << >>
HeadRests ==
    {[description |-> "", robots |-> "", canonical |-> "", hreflang |-> NoLinks,
      jsonld |-> << >>],
     [description |-> "About us", robots |-> "", canonical |-> "",
      hreflang |-> NoLinks, jsonld |-> << >>],
     [description |-> " About us", robots |-> "noindex",
      canonical |-> "https://example.com/", hreflang |-> NoLinks, jsonld |-> << >>],
     [description |-> "", robots |-> "", canonical |-> "https://example.com/",
      hreflang |-> << [hreflang |-> "de", href |-> "https://example.com/de"] >>,
      jsonld |-> << "{\"@type\": \"WebPage\"}", "" >>]}

MainTexts == {"", "Welcome", "Welcome back", "Welcome  back", " Welcome"}
FooterTexts == {"2024", "2025"}
AltTexts == {"", "logo"}

MainBlocks == [boilerplate : {FALSE}, text : MainTexts, alt : AltTexts]
FooterBlocks == [boilerplate : {TRUE}, text : FooterTexts, alt : {""}]
Bodies == {<< m >> : m \in MainBlocks} \cup
          {<< m, f >> : m \in MainBlocks, f \in FooterBlocks}

Docs == [title : TitleTags, head : HeadRests, body : Bodies]

NoSums == [clean |-> "", content |-> << >>, head |-> << >>]

\* " ".join(parts)
RECURSIVE join_blank(_)
join_blank(parts) ==
    IF parts = << >> THEN ""
    ELSE IF Len(parts) = 1 THEN Head(parts)
    ELSE Head(parts) \o " " \o join_blank(Tail(parts))

\* [p for p in parts if p]
RECURSIVE nonempty(_)
nonempty(parts) ==
    IF parts = << >> THEN << >>
    ELSE IF Head(parts) = "" THEN nonempty(Tail(parts))
    ELSE << Head(parts) >> \o nonempty(Tail(parts))

\* re.sub(r"\s+", " ", s)
RECURSIVE collapse(_)
collapse(s) ==
    IF s = "" THEN ""
    ELSE IF Char(s, 1) \in Whitespace
    THEN " " \o collapse(lstrip(s, Whitespace))
    ELSE Char(s, 1) \o collapse(Drop(s, 1))

\* hashlib.sha256(text.encode()).hexdigest(), which never collides on the
\* texts of the model
sha256_hexdigest(text) == << "sha256", text >>

\* src/src/core/checksum.py:73-130: SHA-256 of the stable elements of the
\* head, which never collides on the heads of the model
compute_head_checksum(head) == << "sha256", head >>

\* checksum.py:60  Document(html).short_title(), for a short title: the
\* text of <title> with its whitespace normalised
short_title(doc) ==
    IF doc.title.present THEN strip(collapse(doc.title.string)) ELSE ""

\* checksum.py:65  Document(html).summary(): the main content
summary(doc) == SelectSeq(doc.body, LAMBDA block : ~block.boilerplate)

\* checksum.py:67  soup_body.get_text(" ", strip=True)
get_text(blocks) ==
    join_blank(nonempty([i \in 1..Len(blocks) |-> strip(blocks[i].text)]))

\* checksum.py:68-69
alt_texts(blocks) ==
    join_blank([i \in 1..Len(nonempty([j \in 1..Len(blocks) |-> blocks[j].alt])) |->
                   strip(nonempty([j \in 1..Len(blocks) |-> blocks[j].alt])[i])])

\* checksum.py:60-70
clean_text_of(doc) ==
    LET title == strip(short_title(doc))
        meta_desc == strip(doc.head.description)
        main_html == summary(doc)
        visible == get_text(main_html)
        alts == alt_texts(main_html)
    IN strip(collapse(join_blank(nonempty(<< title, meta_desc, alts, visible >>))))

\* checksum.py:24-71
content_and_hash(doc) == << clean_text_of(doc), sha256_hexdigest(clean_text_of(doc)) >>

\* a head checksum that forgets the title
keep_title_never(title) == << >>

\* checksum.py:111-112
keep_title(title) ==
    IF title.present /\ title.string # "" THEN << strip(title.string) >> ELSE << >>

\* checksum.py:109-129
stable(doc) ==
    LET head == doc.head
        metas == (IF head.description # ""
                  THEN << "description:" \o strip(head.description) >> ELSE << >>)
                 \o (IF head.robots # ""
                     THEN << "robots:" \o strip(head.robots) >> ELSE << >>)
        canon == IF head.canonical # ""
                 THEN << "canon:" \o strip(head.canonical) >> ELSE << >>
        alternates == [i \in 1..Len(head.hreflang) |->
                          "hl:" \o head.hreflang[i].hreflang \o ":"
                                \o strip(head.hreflang[i].href)]
        scripts == [i \in 1..Len(head.jsonld) |-> strip(head.jsonld[i])]
    IN join_blank(keep_title(doc.title) \o metas \o canon \o alternates \o scripts)

SumIdle ==
    /\ doc_a = [title |-> NoTitle, head |-> << >>, body |-> << >>]
    /\ doc_b = [title |-> NoTitle, head |-> << >>, body |-> << >>]
    /\ sum_a = NoSums
    /\ sum_b = NoSums
    /\ kpc = "idle"

\* the two documents are the same but for the text of <title>
DifferOnlyInTitle(a, b) ==
    /\ a.title.present /\ b.title.present
    /\ a.title.string # b.title.string
    /\ a.head = b.head
    /\ a.body = b.body

\* the two documents are the same but for the text of blocks of the body
DifferOnlyInBodyText(a, b) ==
    /\ a.title = b.title
    /\ a.head = b.head
    /\ Len(a.body) = Len(b.body)
    /\ \A i \in 1..Len(a.body) :
          /\ a.body[i].boilerplate = b.body[i].boilerplate
          /\ a.body[i].alt = b.body[i].alt
    /\ \E i \in 1..Len(a.body) : a.body[i].text # b.body[i].text

\* checksum.py:24-71 on both documents
ContentAndHash ==
    /\ kpc = "raw"
    /\ sum_a' = [sum_a EXCEPT !.clean = content_and_hash(doc_a)[1],
                              !.content = content_and_hash(doc_a)[2]]
    /\ sum_b' = [sum_b EXCEPT !.clean = content_and_hash(doc_b)[1],
                              !.content = content_and_hash(doc_b)[2]]
    /\ kpc' = "content"
    /\ UNCHANGED << doc_a, doc_b >>

\* checksum.py:73-130 on both documents
HeadChecksum ==
    /\ kpc = "content"
    /\ sum_a' = [sum_a EXCEPT !.head = compute_head_checksum(stable(doc_a))]
    /\ sum_b' = [sum_b EXCEPT !.head = compute_head_checksum(stable(doc_b))]
    /\ kpc' = "done"
    /\ UNCHANGED << doc_a, doc_b >>

(***************************************************************************)
(* The jobs of the API server (src/api/main.py).  A job is made by a POST  *)
(* request and run by a background task; the task is a coroutine, so the   *)
(* statements between two awaits happen in one step, and status_log keeps  *)
(* every status the job is given on the way.                               *)
(***************************************************************************)
NoJob == [status |-> "none", message |-> "", completed_at |-> "None"]
NoRequest == [max_depth |-> 0, max_pages |-> 0]

\* the CrawlRequest bodies of the model (main.py:49-52): the least limits and
\* the largest that CRAWLER_CONFIG takes in the model
ApiRequests == {[max_depth |-> 0, max_pages |-> 1],
                [max_depth |-> MaxDepthBound, max_pages |-> MaxPagesBound]}

ApiIdle ==
    /\ job = NoJob
    /\ job_kind = "none"
    /\ request = NoRequest
    /\ api_pc = "idle"
    /\ status_log = << >>
    /\ embedder_runs = 0

\* main.py:232-236 and 264-268
FailedJob(kind) ==
    [status |-> "failed",
     message |-> IF kind = "crawl" THEN "Job failed" ELSE "Embed job failed",
     completed_at |-> "now"]

\* main.py:225-228 and 257-260
CompletedJob(kind) ==
    [status |-> "completed",
     message |-> IF kind = "crawl" THEN "Crawl and embedding completed successfully"
                 ELSE "Embedding completed successfully",
     completed_at |-> "now"]

\* main.py:89-116  POST /api/crawl
start_crawl(req) ==
    /\ api_pc = "idle"
    /\ job' = [status |-> "started", message |-> "Crawl job created",
               completed_at |-> "None"]
    /\ job_kind' = "crawl"
    /\ request' = req
    /\ status_log' = << "started" >>
    /\ api_pc' = "queued"
    /\ UNCHANGED << embedder_runs, crawl_vars >>

\* main.py:160-187  POST /api/embed
start_embed ==
    /\ api_pc = "idle"
    /\ job' = [status |-> "started", message |-> "Embed job created",
               completed_at |-> "None"]
    /\ job_kind' = "embed"
    /\ status_log' = << "started" >>
    /\ api_pc' = "queued"
    /\ UNCHANGED << request, embedder_runs, crawl_vars >>

\* main.py:207-215, crawler.py:60-72, 356-381, 303-308: the task sets the
\* job running, makes a Crawler, which takes its limits from CRAWLER_CONFIG,
\* and awaits crawl(url); when Crawler() raises the job fails at once
run_crawl_job ==
    /\ api_pc = "queued"
    /\ job_kind = "crawl"
    /\ \/ /\ job' = [job EXCEPT !.status = "running", !.message = "Starting crawl..."]
          /\ status_log' = Append(status_log, "running")
          /\ api_pc' = "crawling"
          /\ frontier' = {start_url}
          /\ depth_map' = [u \in {start_url} |-> 0]
          /\ processed' = {}
          /\ current_depth' = 0
          /\ pc' = "loop"
          /\ UNCHANGED << max_depth, max_pages, batch, fetch_results, todo, exc, web,
                          dispatch_log, parse_count, upsert_count, extract_count >>
       \/ /\ job' = FailedJob("crawl")
          /\ status_log' = status_log \o << "running", "failed" >>
          /\ api_pc' = "done"
          /\ UNCHANGED crawl_vars
    /\ UNCHANGED << job_kind, request, embedder_runs >>

\* a task that runs the embedder whatever became of the crawl
AfterCrawlAlwaysEmbeds(crawl_pc) == "embedding"

\* main.py:215-222, 232: an exception out of crawl(url) goes to the except
\* clause, its return to the embedder
AfterCrawl(crawl_pc) == IF crawl_pc = "done" THEN "embedding" ELSE "failed"

\* main.py:215-222 and 232-236: crawl(url) has returned or raised
crawl_awaited ==
    /\ api_pc = "crawling"
    /\ pc \in {"done", "raised"}
    /\ IF AfterCrawl(pc) = "embedding"
       THEN /\ job' = [job EXCEPT !.message = "Crawl completed, starting embedding..."]
            /\ embedder_runs' = embedder_runs + 1
            /\ api_pc' = "embedding"
            /\ UNCHANGED status_log
       ELSE /\ job' = FailedJob("crawl")
            /\ status_log' = Append(status_log, "failed")
            /\ api_pc' = "done"
            /\ UNCHANGED embedder_runs
    /\ UNCHANGED << job_kind, request, crawl_vars >>

\* main.py:247-255: the task of an embed job sets it running and enters the
\* embedder
run_embed_job ==
    /\ api_pc = "queued"
    /\ job_kind = "embed"
    /\ job' = [job EXCEPT !.status = "running", !.message = "Starting embedding..."]
    /\ status_log' = Append(status_log, "running")
    /\ embedder_runs' = embedder_runs + 1
    /\ api_pc' = "embedding"
    /\ UNCHANGED << job_kind, request, crawl_vars >>

\* main.py:222-236 and 254-268: with Embedder() as embedder: embedder.run()
\* ends or raises
embedder_ended(raised) ==
    /\ api_pc = "embedding"
    /\ job' = IF raised THEN FailedJob(job_kind) ELSE CompletedJob(job_kind)
    /\ status_log' = Append(status_log, IF raised THEN "failed" ELSE "completed")
    /\ api_pc' = "done"
    /\ UNCHANGED << job_kind, request, embedder_runs, crawl_vars >>

CanonIdle ==
    /\ in_a = NoParts
    /\ in_b = NoParts
    /\ out_a = ""
    /\ out_b = ""
    /\ out_aa = ""
    /\ cpc = "idle"

CrawlIdle ==
    /\ max_depth = 0
    /\ max_pages = 1
    /\ frontier = {}
    /\ depth_map = [u \in {} |-> 0]
    /\ processed = {}
    /\ current_depth = 0
    /\ batch = {}
    /\ fetch_results = [u \in {} |-> Pending]
    /\ todo = {}
    /\ pc = "idle"
    /\ exc = NoExc
    /\ web = [u \in Urls |-> Unknown]
    /\ dispatch_log = << >>
    /\ parse_count = [u \in Urls |-> 0]
    /\ upsert_count = [u \in Urls |-> 0]
    /\ extract_count = [u \in Urls |-> 0]

CanonInit ==
    /\ in_a \in UrlParts
    /\ in_b \in Aliases(in_a) \cup (IF in_a = ExampleA THEN {ExampleB} ELSE {})
    /\ out_a = ""
    /\ out_b = ""
    /\ out_aa = ""
    /\ cpc = "raw"
    /\ CrawlIdle
    /\ StoreIdle
    /\ LinkIdle
    /\ ParseIdle
    /\ RestIdle
    /\ FetchIdle /\ SemIdle /\ SumIdle /\ ApiIdle

\* src/src/crawler/__main__.py:20  start_url = Crawler.canonical(sys.argv[1])
Canonicalize ==
    /\ cpc = "raw"
    /\ out_a' = canonical(Render(in_a))
    /\ out_b' = canonical(Render(in_b))
    /\ cpc' = "once"
    /\ UNCHANGED << in_a, in_b, out_aa, beside_canon >>

\* crawler.py:304  start_url = self.canonical(start_url)
Recanonicalize ==
    /\ cpc = "once"
    /\ out_aa' = canonical(out_a)
    /\ cpc' = "twice"
    /\ UNCHANGED << in_a, in_b, out_a, out_b, beside_canon >>

CanonNext == Canonicalize \/ Recanonicalize

CanonSpec == CanonInit /\ [][CanonNext]_vars

StoreInit == StoreIdle /\ CrawlIdle /\ CanonIdle /\ LinkIdle /\ ParseIdle /\ RestIdle /\ FetchIdle /\ SemIdle /\ SumIdle /\ ApiIdle

StoreNext ==
    \/ \E assets \in PageAssets : upsert_page(assets) /\ UNCHANGED beside_store
    \/ pages_for_embedding /\ UNCHANGED beside_store
    \/ \E url \in PageUrls, vecs \in VecLists : save_vectors(url, vecs) /\ UNCHANGED beside_store

StoreSpec == StoreInit /\ [][StoreNext]_vars

LinkInit ==
    /\ link_page \in BasePages
    /\ link_in \in PageLinks
    /\ link_source = "none"
    /\ link_work = ""
    /\ link_abs = ""
    /\ link_out = Dropped
    /\ lpc = "raw"
    /\ CrawlIdle /\ CanonIdle /\ StoreIdle /\ ParseIdle /\ RestIdle /\ FetchIdle /\ SemIdle /\ SumIdle /\ ApiIdle

LinkNext ==
    \/ FirecrawlCrawlable /\ UNCHANGED beside_link
    \/ FirecrawlCanonical /\ UNCHANGED beside_link
    \/ FirecrawlSameDomain /\ UNCHANGED beside_link
    \/ HtmlHref /\ UNCHANGED beside_link
    \/ HtmlAbsolute /\ UNCHANGED beside_link
    \/ HtmlCanonical /\ UNCHANGED beside_link
    \/ HtmlSameDomain /\ UNCHANGED beside_link

LinkSpec == LinkInit /\ [][LinkNext]_vars

ParseInit ==
    /\ parse_in \in [url : {"https://example.com"}, html : Htmls, extra : Extras]
    /\ parse_out = Raised("none")
    /\ ppc = "raw"
    /\ CrawlIdle /\ CanonIdle /\ StoreIdle /\ LinkIdle /\ RestIdle /\ FetchIdle /\ SemIdle /\ SumIdle /\ ApiIdle

ParseNext == Parse /\ UNCHANGED beside_parse

ParseSpec == ParseInit /\ [][ParseNext]_vars

RestInit ==
    /\ batch_buffer = << >>
    /\ rest_ret = << >>
    /\ rest_posted = << >>
    /\ rest_calls = 0
    /\ rest_pc = "crawling"
    /\ StoreIdle /\ CrawlIdle /\ CanonIdle /\ LinkIdle /\ ParseIdle /\ FetchIdle /\ SemIdle /\ SumIdle /\ ApiIdle

RestNext ==
    \/ \E assets \in RestAssets : RestProcessPage(assets) /\ UNCHANGED beside_rest
    \/ RestCrawlReturns /\ UNCHANGED beside_rest
    \/ RestFlushAll /\ UNCHANGED beside_rest

RestSpec == RestInit /\ [][RestNext]_vars

\* the loop has run for some time, or for none, when the fetcher is made
FetchInit ==
    /\ loop_time \in 0..rate_limit
    /\ last_request_time = 0
    /\ fpc = [c \in FetchCalls |-> "idle"]
    /\ attempt = [c \in FetchCalls |-> 0]
    /\ wake_at = [c \in FetchCalls |-> NoTime]
    /\ scrape_log = [c \in FetchCalls |-> << >>]
    /\ last_post_at = NoTime
    /\ fetch_result = [c \in FetchCalls |-> NoFetchResult]
    /\ StoreIdle /\ CrawlIdle /\ CanonIdle /\ LinkIdle /\ ParseIdle /\ RestIdle /\ SemIdle /\ SumIdle /\ ApiIdle

FetchNext ==
    \/ \E c \in FetchCalls : FetchCall(c) /\ UNCHANGED beside_fetch
    \/ \E c \in FetchCalls : RateLimitWake(c) /\ UNCHANGED beside_fetch
    \/ \E c \in FetchCalls, outcome \in ScrapeOutcomes : Respond(c, outcome) /\ UNCHANGED beside_fetch
    \/ \E c \in FetchCalls : BackoffWake(c) /\ UNCHANGED beside_fetch
    \/ TimePasses /\ UNCHANGED beside_fetch

FetchSpec == FetchInit /\ [][FetchNext]_vars

\* crawler.py:334: the orchestrator gathers fetch(u) for the URLs of a batch
SemInit ==
    /\ sem_new \in 1..MaxBatch
    /\ sem_value = permits
    /\ sem_waiters = 0
    /\ sem_scraping = [n \in Attempts |-> 0]
    /\ sem_ok = 0
    /\ sem_failed = 0
    /\ StoreIdle /\ CrawlIdle /\ CanonIdle /\ LinkIdle /\ ParseIdle /\ RestIdle /\ FetchIdle /\ SumIdle /\ ApiIdle

SemNext ==
    \/ SemEnter /\ UNCHANGED beside_sem
    \/ SemWake /\ UNCHANGED beside_sem
    \/ \E n \in Attempts : AttemptSucceeds(n) /\ UNCHANGED beside_sem
    \/ \E n \in Attempts : AttemptFails(n) /\ UNCHANGED beside_sem

SemSpec == SemInit /\ [][SemNext]_vars

\* the event loop runs every coroutine that is ready, and every POST ends,
\* by its answer or by the timeout of firecrawl_fetcher.py:84
SemFairSpec ==
    /\ SemSpec
    /\ WF_vars(SemEnter /\ UNCHANGED beside_sem)
    /\ WF_vars(SemWake /\ UNCHANGED beside_sem)
    /\ \A n \in Attempts :
          WF_vars((AttemptSucceeds(n) \/ AttemptFails(n)) /\ UNCHANGED beside_sem)

SumInit ==
    /\ doc_a \in Docs
    /\ doc_b \in {d \in Docs : DifferOnlyInTitle(doc_a, d) \/ DifferOnlyInBodyText(doc_a, d)}
    /\ sum_a = NoSums
    /\ sum_b = NoSums
    /\ kpc = "raw"
    /\ StoreIdle /\ CrawlIdle /\ CanonIdle /\ LinkIdle /\ ParseIdle /\ RestIdle /\ FetchIdle /\ SemIdle /\ ApiIdle

SumNext ==
    \/ ContentAndHash /\ UNCHANGED beside_sum
    \/ HeadChecksum /\ UNCHANGED beside_sum

SumSpec == SumInit /\ [][SumNext]_vars

Init == CrawlInit /\ CanonIdle /\ StoreIdle /\ LinkIdle /\ ParseIdle /\ RestIdle /\ FetchIdle /\ SemIdle /\ SumIdle /\ ApiIdle

Next ==
    \/ LoopHead /\ UNCHANGED beside_crawl
    \/ \E u \in Urls : FetchResolve(u) /\ UNCHANGED beside_crawl
    \/ GatherDone /\ UNCHANGED beside_crawl
    \/ \E u \in Urls : SkipFailed(u) /\ UNCHANGED beside_crawl
    \/ \E u \in Urls : ProcessPage(u) /\ UNCHANGED beside_crawl
    \/ BatchDone /\ UNCHANGED beside_crawl

Spec == Init /\ [][Next]_vars

\* the server is up, CRAWLER_CONFIG is what it is, and no job has been made
ApiInit ==
    /\ ApiIdle
    /\ max_depth \in 0..MaxDepthBound
    /\ max_pages \in 1..MaxPagesBound
    /\ frontier = {}
    /\ depth_map = [u \in {} |-> 0]
    /\ processed = {}
    /\ current_depth = 0
    /\ batch = {}
    /\ fetch_results = [u \in {} |-> Pending]
    /\ todo = {}
    /\ pc = "idle"
    /\ exc = NoExc
    /\ web = [u \in Urls |-> Unknown]
    /\ dispatch_log = << >>
    /\ parse_count = [u \in Urls |-> 0]
    /\ upsert_count = [u \in Urls |-> 0]
    /\ extract_count = [u \in Urls |-> 0]
    /\ CanonIdle /\ StoreIdle /\ LinkIdle /\ ParseIdle /\ RestIdle /\ FetchIdle /\ SemIdle /\ SumIdle

ApiNext ==
    \/ \E req \in ApiRequests : start_crawl(req) /\ UNCHANGED beside_api
    \/ start_embed /\ UNCHANGED beside_api
    \/ run_crawl_job /\ UNCHANGED beside_api
    \/ run_embed_job /\ UNCHANGED beside_api
    \/ crawl_awaited /\ UNCHANGED beside_api
    \/ \E raised \in BOOLEAN : embedder_ended(raised) /\ UNCHANGED beside_api
    \/ LoopHead /\ UNCHANGED beside_crawl
    \/ \E u \in Urls : FetchResolve(u) /\ UNCHANGED beside_crawl
    \/ GatherDone /\ UNCHANGED beside_crawl
    \/ \E u \in Urls : SkipFailed(u) /\ UNCHANGED beside_crawl
    \/ \E u \in Urls : ProcessPage(u) /\ UNCHANGED beside_crawl
    \/ BatchDone /\ UNCHANGED beside_crawl

ApiSpec == ApiInit /\ [][ApiNext]_vars

(***************************************************************************)
(* Properties of the crawl loop.                                           *)
(***************************************************************************)

\* the URLs within k link hops of the start URL, over the pages served so far
RECURSIVE Within(_)
Within(k) == IF k = 0 THEN {start_url}
             ELSE LET W == Within(k - 1) IN W \cup UNION {web[u].links : u \in W}

Dispatches(u) == {i \in DOMAIN dispatch_log : u \in dispatch_log[i].urls}

\* a fetch that failed: no result, or a result that carries an error
IsFetchFailure(r) == r.st = "none" \/ (r.st = "result" /\ r.error)

\* C1: during one crawl run every URL is dispatched to the Fetcher at most
\* once, also when it is rediscovered at several depths, is linked from a
\* page of its own batch while in flight, or links to itself.
C1_DispatchedAtMostOnce ==
    \A u \in Urls : Cardinality(Dispatches(u)) <= 1

\* C2: max_pages is a hard cap: processed never holds more than max_pages
\* URLs, and when more than max_pages pages are reachable within max_depth
\* the crawl ends with exactly max_pages processed URLs.
C2_MaxPagesHardCap ==
    /\ Cardinality(processed) <= max_pages
    /\ (pc = "done" /\ Cardinality(Within(max_depth)) > max_pages)
          => Cardinality(processed) = max_pages

\* C3: every URL in the frontier has a recorded depth <= max_depth, and no
\* URL farther than max_depth link hops from the start URL is ever
\* dispatched to the Fetcher.
C3_BoundedTraversal ==
    /\ \A u \in frontier : depth_map[u] <= max_depth
    /\ \A i \in DOMAIN dispatch_log :
          /\ dispatch_log[i].depth <= max_depth
          /\ dispatch_log[i].urls \subseteq Within(max_depth)

\* max_depth = 1 on the chain 1 -> 2 -> 3: 1 and 2 processed, 3 never fetched
C3_Witness ==
    /\ pc = "done"
    /\ max_depth = 1
    /\ web[1] = [known |-> TRUE, links |-> {2}]
    /\ web[2] = [known |-> TRUE, links |-> {3}]
    /\ processed = {1, 2}
    /\ Dispatches(3) = {}

\* C4: the depths of the dispatched batches are strictly increasing, and
\* once a batch of depth d has been dispatched no URL recorded at depth d or
\* less is left in the frontier: no URL of depth d+1 is dispatched before
\* every URL recorded at depth d.
C4_BfsDepthMonotone ==
    /\ \A i, j \in DOMAIN dispatch_log :
          i < j => dispatch_log[i].depth < dispatch_log[j].depth
    /\ \A i \in DOMAIN dispatch_log : \A u \in frontier :
          depth_map[u] > dispatch_log[i].depth

\* a crawl that dispatched a batch of two URLs at depth 1 after the seed
C4_Witness ==
    /\ pc = "done"
    /\ Len(dispatch_log) >= 2
    /\ dispatch_log[1] = [depth |-> 0, urls |-> {start_url}]
    /\ dispatch_log[2].depth = 1
    /\ Cardinality(dispatch_log[2].urls) = 2

\* C7: a parse error on one page aborts that page only: the page is still
\* added to processed and the crawl goes on.
C7_ParseErrorAbortsPageOnly ==
    exc.kind = "parse" => (exc.url \in processed /\ pc # "raised")

\* C8: when Storage.upsert_page fails for a parsed page, link discovery is
\* still performed for it, the page is marked processed and the crawl goes
\* on.
C8_StorageFailureKeepsCrawling ==
    exc.kind = "storage" =>
        /\ exc.url \in processed
        /\ pc # "raised"
        /\ MayExtract(current_depth, max_depth) => extract_count[exc.url] > 0

C9_FailedFetchStep ==
    \A u \in Urls :
        (pc = "process" /\ u \in todo /\ IsFetchFailure(fetch_results[u])) =>
            /\ parse_count'[u] = parse_count[u]
            /\ upsert_count'[u] = upsert_count[u]
            /\ extract_count'[u] = extract_count[u]
            /\ u \notin todo' =>
                  /\ processed' = processed \cup {u}
                  /\ todo' = todo \ {u}
                  /\ pc' = "process"
                  /\ exc' = NoExc
                  /\ frontier' = frontier
                  /\ depth_map' = depth_map

C9_BatchProcessed ==
    (pc \in {"loop", "done"} \/ (pc = "process" /\ todo = {})) =>
        \A i \in DOMAIN dispatch_log : dispatch_log[i].urls \subseteq processed

C10_Non2xxIsFailure ==
    [][\A u \in Urls :
          (/\ pc = "process"
           /\ u \in todo
           /\ fetch_results[u].st = "result"
           /\ fetch_results[u].status_code \notin 200..299) =>
              /\ parse_count'[u] = parse_count[u]
              /\ upsert_count'[u] = upsert_count[u]
              /\ u \notin todo' => (u \in processed' /\ pc' = "process")]_vars

(***************************************************************************)
(* Properties of Crawler.canonical.                                        *)
(***************************************************************************)

\* C5: two URLs that differ only in host case, a leading www., the fragment
\* or the order of the query parameters have the same canonical form, and so
\* have https://WWW.Example.com/a/?b=2&a=1 and https://example.com/a?a=1&b=2.
C5_CanonicalEquivalence ==
    (/\ cpc \in {"once", "twice"}
     /\ DifferOnlyInAliases(in_a, in_b) \/ (in_a = ExampleA /\ in_b = ExampleB))
        => out_a = out_b

\* C6: canonical(canonical(u)) = canonical(u) for every URL u.
C6_CanonicalIdempotent ==
    cpc = "twice" => out_aa = out_a

(***************************************************************************)
(* Properties of PostgresStorage.                                          *)
(***************************************************************************)

\* the step is a call of upsert_page for u that returned
UpsertReturns(u) ==
    /\ clock' = clock + 1
    /\ call'.op = "upsert_page"
    /\ call'.url = u
    /\ ~ret'.raised

C12_HeadChangeReported ==
    [][\A u \in PageUrls :
          (UpsertReturns(u) /\ pages[u].present) =>
              /\ ret'.value[1] = (compute_markdown_checksum(call'.clean_text)
                                     # pages[u].markdown_checksum)
              /\ ret'.value[2] = (compute_head_checksum(call'.seo_head)
                                     # compute_head_checksum(prev_head[u]))
              /\ pages'[u].last_seen = clock']_vars

\* the pages spec.md has pages_for_embedding return: never embedded, or
\* changed after the last embedding
EmbeddingIsStale(row) ==
    row.embedded_at = NullTime \/ row.markdown_changed > row.embedded_at

\* C13: pages_for_embedding returns exactly the stored pages that were never
\* embedded or whose content changed after their last embedding.
C13_PagesForEmbeddingExact ==
    call.op = "pages_for_embedding" =>
        ret.value = {<< u, pages[u].clean_text >> :
                        u \in {v \in PageUrls : pages[v].present /\ EmbeddingIsStale(pages[v])}}

\* C14: upsert_page leaves embedded_at and summary_vec of every page as they
\* were in each of its branches; embedded_at of a page changes only in a
\* call of save_vectors for that page, which advances it.
C14_OnlySaveVectorsEmbeds ==
    [][\A u \in PageUrls :
          /\ (clock' = clock + 1 /\ call'.op = "upsert_page") =>
                /\ pages'[u].embedded_at = pages[u].embedded_at
                /\ pages'[u].summary_vec = pages[u].summary_vec
          /\ (\/ pages'[u].embedded_at # pages[u].embedded_at
              \/ pages'[u].summary_vec # pages[u].summary_vec) =>
                /\ call'.op = "save_vectors"
                /\ call'.url = u
                /\ pages'[u].embedded_at > pages[u].embedded_at]_vars

\* an embedded page whose content changed in a later visit keeps its
\* embedding
C14_Witness ==
    /\ call.op = "upsert_page"
    /\ ~ret.raised
    /\ ret.value = << TRUE, FALSE >>
    /\ pages[call.url].embedded_at # NullTime
    /\ pages[call.url].summary_vec # NullVec
    /\ pages[call.url].markdown_changed > pages[call.url].embedded_at

(***************************************************************************)
(* Properties of the link filters.                                         *)
(***************************************************************************)

\* the link is a non-empty http(s) link that neither filter skips before it
\* looks at the host
IsHttpLink ==
    /\ lpc = "done"
    /\ link_abs # ""
    /\ is_crawlable_url(link_abs)

\* C15: every link handed on towards the frontier has the scheme http or
\* https, whether it comes from the Firecrawl links or from the anchors of
\* the HTML.
C15_OnlyHttpLinksKept ==
    (lpc = "done" /\ link_out.kept) => urlparse(link_out.url).scheme \in {"http", "https"}

\* C16: an http(s) link is retained exactly when its host, lower-cased and
\* without one leading "www.", equals the host of the page normalised the
\* same way, on both link sources.
C16_SameDomainExactly ==
    IsHttpLink =>
        (link_out.kept <=> BareHost(urlparse(link_abs).netloc)
                              = BareHost(urlparse(link_page).netloc))

(***************************************************************************)
(* Properties of FirecrawlParser.parse.                                    *)
(***************************************************************************)

\* C17: parse raises ValueError exactly when extra is None or has no key
\* "markdown", and then returns no PageAssets; when the key is there it
\* returns the PageAssets of the url.
C17_ValueErrorWithoutMarkdown ==
    ppc = "done" =>
        LET extra == parse_in.extra
            missing == extra.none \/ "markdown" \notin DOMAIN extra.dict
        IN /\ missing => parse_out = Raised("ValueError")
           /\ ~missing => /\ parse_out.raised = "none"
                          /\ parse_out.assets.url = parse_in.url
                          /\ parse_out.assets.raw_html = parse_in.html

\* an extra with links and metadata but without markdown
C17_Witness ==
    /\ ppc = "done"
    /\ ~parse_in.extra.none
    /\ DOMAIN parse_in.extra.dict = {"links", "metadata"}
    /\ parse_out.raised = "ValueError"

(***************************************************************************)
(* Further properties of the crawl loop.                                   *)
(***************************************************************************)

C19_NoWorkWhileInFlight ==
    (\E u \in batch : fetch_results[u].st = "pending") =>
        UNCHANGED << frontier, depth_map, processed, parse_count, upsert_count,
                     extract_count, dispatch_log, current_depth >>

\* C19: while a fetch of the current batch is in flight the frontier,
\* depth_map and processed stay as they are, no result is processed and no
\* later batch is dispatched; results are processed only after every fetch
\* of the batch has resolved.
C19_GatherIsAJoin ==
    /\ [](pc = "process" => \A u \in batch : fetch_results[u].st # "pending")
    /\ [][C19_NoWorkWhileInFlight]_vars

\* a batch of two with one fetch resolved and the other in flight
C19_Witness ==
    /\ pc = "gather"
    /\ \E u, v \in batch :
          /\ fetch_results[u].st = "result"
          /\ fetch_results[u].links # {}
          /\ fetch_results[v].st = "pending"
    /\ processed \cap batch = {}

\* C20: processed only grows, and a URL that is in processed is never put
\* into the frontier.
C20_ProcessedNeverRequeued ==
    [][/\ processed \subseteq processed'
       /\ (frontier' \ frontier) \cap processed = {}]_vars

\* page 2 links back to the processed start page, which stays out of the
\* frontier and is not fetched again
C20_Witness ==
    /\ pc = "done"
    /\ extract_count[2] > 0
    /\ start_url \in web[2].links
    /\ start_url \in processed
    /\ start_url \notin web[start_url].links
    /\ Cardinality(Dispatches(start_url)) = 1

\* C21: first-discovered depth wins: once a URL has a depth in depth_map,
\* no later step of the crawl run gives it another depth.
C21_FirstDepthWins ==
    [][\A u \in DOMAIN depth_map :
          u \in DOMAIN depth_map' /\ depth_map'[u] = depth_map[u]]_vars

\* C22: RestApiStorage and PostgresStorage, handed the same pages one after
\* the other, return the same (content_changed, seo_changed) flags from
\* every upsert_page that returns.
C22_SameFlagsAsPostgres ==
    [][(rest_calls' # rest_calls /\ clock' # clock /\ ~ret'.raised)
          => rest_ret' = ret'.value]_vars

\* C28: when Crawler.crawl has returned, every page still in the batch
\* buffer of the RestApiStorage has been accepted by pages/batch.
C28_AllPagesPostedOnReturn ==
    rest_pc = "returned" =>
        \A i \in 1..Len(batch_buffer) :
            \E j \in 1..Len(rest_posted) : rest_posted[j] = batch_buffer[i]

\* the places of the log of a call that hold an entry of the given kind
LogPlaces(c, kind) == {i \in 1..Len(scrape_log[c]) : scrape_log[c][i][1] = kind}

\* C23: a call of fetch sends at most max_retries POSTs, none after the first
\* one that succeeded, and after every failed attempt other than the last it
\* sleeps 2^attempt seconds before it sends the next one.
C23_BoundedRetriesWithBackoff ==
    \A c \in FetchCalls :
        /\ Cardinality(LogPlaces(c, "post")) <= max_retries
        /\ \A i \in LogPlaces(c, "ok") : i = Len(scrape_log[c])
        /\ \A i \in LogPlaces(c, "failed") :
               scrape_log[c][i][2] # max_retries - 1 =>
                   /\ i < Len(scrape_log[c])
                   /\ scrape_log[c][i + 1] = << "sleep", (2 ^ scrape_log[c][i][2]) * second >>
        /\ \A i \in LogPlaces(c, "post") :
               i > 1 => scrape_log[c][i - 1][1] = "sleep"

\* a call that used up its attempts: three POSTs, two sleeps between them
C23_Witness ==
    \E c \in FetchCalls :
        /\ fpc[c] = "returned"
        /\ Cardinality(LogPlaces(c, "post")) = max_retries
        /\ Cardinality(LogPlaces(c, "sleep")) = max_retries - 1

\* C24: a call of fetch that has returned after a successful scrape holds a
\* result with status_code 200, no error and the keys markdown, links and
\* metadata in extra; one that has returned after its last attempt failed
\* holds a result with status_code 500, empty content and an error.
C24_ResultTellsTheOutcome ==
    \A c \in FetchCalls :
        fpc[c] = "returned" =>
            IF LogPlaces(c, "ok") # {}
            THEN /\ fetch_result[c].status_code = 200
                 /\ fetch_result[c].error = ""
                 /\ fetch_result[c].extra = {"markdown", "links", "metadata"}
            ELSE /\ fetch_result[c].status_code = 500
                 /\ fetch_result[c].content = ""
                 /\ fetch_result[c].error # ""

\* C26: a POST is sent at least rate_limit after the POST sent before it,
\* whichever calls the two belong to.
C26_PostsAreRateLimitApart ==
    [][\A c \in FetchCalls :
          (/\ Cardinality(LogPlaces(c, "post"))' > Cardinality(LogPlaces(c, "post"))
           /\ last_post_at # NoTime)
              => last_post_at' - last_post_at >= rate_limit]_vars

\* the calls that hold a permit: those inside the with block
RECURSIVE InProgress(_)
InProgress(n) == IF n < 0 THEN 0 ELSE sem_scraping[n] + InProgress(n - 1)

\* C25: at most 8 calls are inside the semaphore at any time, every permit
\* that is not free is held by a call that is still in its retry sequence
\* (a call that has left it, either way, has given its permit back), and
\* calls that wait for a permit get one in the end.
C25_AtMostEightInProgress ==
    /\ [](InProgress(max_retries - 1) <= 8)
    /\ [](sem_value + InProgress(max_retries - 1) = 8)
    /\ (sem_waiters > 0) ~> (sem_waiters = 0)

\* all permits are taken, a call waits, and a call has left already
C25_Witness ==
    /\ sem_value = 0
    /\ sem_waiters > 0
    /\ InProgress(max_retries - 1) = 8
    /\ sem_ok + sem_failed > 0

\* C27 as stated: when the checksums of two documents that differ only in
\* the text of <title> are done, their head checksums differ; when the two
\* differ only in the text of the body, their content checksums differ and
\* their head checksums are the same.
C27_ChecksumsSensitive ==
    kpc = "done" =>
        /\ DifferOnlyInTitle(doc_a, doc_b) => sum_a.head # sum_b.head
        /\ DifferOnlyInBodyText(doc_a, doc_b) =>
               /\ sum_a.content # sum_b.content
               /\ sum_a.head = sum_b.head

\* str.split(): the words of a text
RECURSIVE Words(_)
Words(text) ==
    LET rest == lstrip(text, Whitespace)
        end == CHOOSE n \in 1..(Len(rest) + 1) :
                   /\ n = Len(rest) + 1 \/ Char(rest, n) \in Whitespace
                   /\ \A m \in 1..(n - 1) : Char(rest, m) \notin Whitespace
    IN IF rest = "" THEN << >>
       ELSE << Take(rest, end - 1) >> \o Words(Drop(rest, end - 1))

\* the words of the blocks of the body that are not boilerplate
RECURSIVE MainWords(_)
MainWords(body) ==
    IF body = << >> THEN << >>
    ELSE (IF Head(body).boilerplate THEN << >> ELSE Words(Head(body).text))
         \o MainWords(Tail(body))

\* C27, amended: the head checksums of two documents that differ only in
\* the text of <title> differ when the titles differ in more than the
\* whitespace around them; two documents that differ only in the text of
\* the body have the same head checksum, and their content checksums
\* differ when the words of their main content differ.
C27_ChecksumsSensitiveToText ==
    kpc = "done" =>
        /\ (/\ DifferOnlyInTitle(doc_a, doc_b)
            /\ strip(doc_a.title.string) # strip(doc_b.title.string))
               => sum_a.head # sum_b.head
        /\ DifferOnlyInBodyText(doc_a, doc_b) =>
               /\ sum_a.head = sum_b.head
               /\ MainWords(doc_a.body) # MainWords(doc_b.body)
                      => sum_a.content # sum_b.content

\* two documents with a footer whose main content differs in a word
C27_Witness ==
    /\ kpc = "done"
    /\ DifferOnlyInBodyText(doc_a, doc_b)
    /\ Len(doc_a.body) = 2
    /\ MainWords(doc_a.body) # MainWords(doc_b.body)
    /\ sum_a.content # sum_b.content

\* C29: a crawl started through POST /api/crawl with max_depth = m and
\* max_pages = p dispatches no batch of a depth above m and never holds
\* more than p processed URLs.
C29_RequestLimitsApply ==
    job_kind = "crawl" =>
        /\ \A i \in DOMAIN dispatch_log : dispatch_log[i].depth <= request.max_depth
        /\ Cardinality(processed) <= request.max_pages

\* C30: the statuses a job is given are started, then running, then one of
\* completed and failed, and nothing after; completed_at is set exactly when
\* the status is completed or failed; a crawl job enters the embedder only
\* when its crawl has returned, and a crawl that raised leaves the job failed
\* with the embedder never entered.
C30_JobLifecycle ==
    /\ Len(status_log) <= 3
    /\ \A i \in DOMAIN status_log :
          status_log[i] \in (CASE i = 1 -> {"started"}
                               [] i = 2 -> {"running"}
                               [] OTHER -> {"completed", "failed"})
    /\ status_log # << >> => job.status = status_log[Len(status_log)]
    /\ (job.completed_at # "None") <=> (job.status \in {"completed", "failed"})
    /\ (job_kind = "crawl" /\ embedder_runs > 0) => pc = "done"
    /\ (job_kind = "crawl" /\ pc = "raised" /\ api_pc = "done")
          => (job.status = "failed" /\ embedder_runs = 0)

\* a crawl job whose crawl returned and whose embedder ran to its end
C30_Witness ==
    /\ job_kind = "crawl"
    /\ status_log = << "started", "running", "completed" >>
    /\ pc = "done"
    /\ embedder_runs = 1

TypeOK ==
    /\ frontier \subseteq Urls
    /\ processed \subseteq Urls
    /\ frontier \subseteq DOMAIN depth_map
    /\ pc \in {"idle", "loop", "gather", "process", "done", "raised"}
    /\ cpc \in {"idle", "raw", "once", "twice"}
    /\ lpc \in {"idle", "raw", "link", "canonical_link", "href", "abs_url",
               "canonical_url", "done"}
    /\ ppc \in {"idle", "raw", "done"}
    /\ clock \in 0..MaxClock
====
